---- MODULE Spec2Model ----
(***************************************************************************)
(* Model of the x402_escrow Anchor program                                 *)
(* (src/solana-program/programs/x402_escrow/src/lib.rs).                   *)
(*                                                                         *)
(* State: the PaymentRequirement accounts, addressed by the program        *)
(* derived address of (seller, request_id); the lamports of every wallet;  *)
(* the cluster clock; and the outcome of the last instruction.             *)
(*                                                                         *)
(* Every instruction is one atomic step: Anchor validates the accounts     *)
(* struct (init / seeds / close constraints), then runs the handler, and   *)
(* the runtime discards every effect of an instruction that returns Err.   *)
(* The system-program transfer is taken at its interface: it moves the     *)
(* amount when the source holds at least that many lamports and fails      *)
(* otherwise.                                                              *)
(***************************************************************************)
EXTENDS Integers, FiniteSets, Sequences, TLC

\* ---------------------------------------------------------------- bounds
MaxTime == 2          \* the clock runs over 0..MaxTime
MaxAmount == 2        \* the amount asked by the records that are created
InitLamports == 3     \* lamports every wallet starts with

\* ------------------------------------------------------ program constants
MaxRequestIdLen == 64 \* lib.rs:20, request_id.len() <= 64
MaxSeedLen == 32      \* longest seed an address can be derived from
Rent == 1             \* lamports locked by `init` for the account's space

\* -------------------------------------------------------------- universes
DefaultKey == "default"                    \* Pubkey::default()
Pubkeys == {"alice", "bob"}                \* wallets able to sign
Sellers == {"alice"}                       \* wallets that create records
RequestIds == {<<1>>, <<2>>}               \* request ids of legal length
LongRequestId == [i \in 1..(MaxRequestIdLen + 1) |-> 1]
\* a request id the handler accepts but too long to be a seed
MidRequestId == [i \in 1..(MaxSeedLen + 1) |-> 1]
RequestIdInputs == RequestIds \cup {MidRequestId, LongRequestId}
Amounts == {0, MaxAmount}                  \* an invalid and a valid amount
Times == 0..MaxTime
ExpiryInputs == 0..MaxTime

\* (mutant) the request id is left out of the seeds
PdaSellerOnly(seller, request_id) == <<seller, <<1>>>>

\* seeds = [b"payment", seller, request_id]: the address of a record
Pda(seller, request_id) == <<seller, request_id>>
Addresses == Sellers \X RequestIds

VARIABLES accounts, lamports, now, last, closed
vars == <<accounts, lamports, now, last, closed>>

\* An address that holds no PaymentRequirement account
NoAccount ==
    [live |-> FALSE, seller |-> DefaultKey, request_id |-> <<>>,
     amount |-> 0, expires_at |-> 0, is_paid |-> FALSE,
     payer |-> DefaultKey, bump |-> 0, lamports |-> 0]

\* ctx.bumps.payment_requirement: the canonical bump of the address
Bump(addr) == 255

NoCall ==
    [op |-> "none", addr |-> <<DefaultKey, <<>>>>, request_id |-> <<>>,
     account |-> DefaultKey, caller |-> DefaultKey, amount |-> 0,
     expires_at |-> 0, err |-> "Ok"]

Init ==
    /\ accounts = [a \in Addresses |-> NoAccount]
    /\ lamports = [p \in Pubkeys |-> InitLamports]
    /\ now = 0
    /\ last = NoCall
    /\ closed = {}

\* Clock::get()?.unix_timestamp advances between instructions; `last` always
\* describes the instruction executed by the latest step, if it was one
Tick ==
    /\ now < MaxTime
    /\ now' = now + 1
    /\ last' = NoCall
    /\ UNCHANGED <<accounts, lamports, closed>>

\* the account found at an address (none at an address never initialised)
AccountAt(addr) == IF addr \in DOMAIN accounts THEN accounts[addr] ELSE NoAccount

\* ------------------------------------------------ value transfer primitive
\* system_program::transfer(from, to, n): fails when `from` holds less than n
CanTransfer(held, n) == held >= n

\* the value a record holds in custody beyond its storage cost
Custody(rec) == rec.lamports - Rent

\* --------------------------------------------------- initialize_payment
\* (mutant) init_if_needed: an existing account is accepted and overwritten
InitializePaymentErrIfNeeded(seller, request_id, amount, expires_at) ==
    IF Len(request_id) > MaxSeedLen THEN "MaxSeedLengthExceeded"
    ELSE IF ~CanTransfer(lamports[seller], Rent) THEN "InsufficientFunds"
    ELSE IF ~(amount > 0) THEN "InvalidAmount"
    ELSE IF ~(expires_at > now) THEN "InvalidExpiration"
    ELSE IF ~(Len(request_id) <= MaxRequestIdLen) THEN "RequestIdTooLong"
    ELSE "Ok"

\* #[account(init, payer = seller, seeds = [.., seller, request_id], bump)]:
\* the address is derived from the seeds (no seed may exceed MaxSeedLen
\* bytes) and the account created there, charged to the seller; then the
\* handler's three require! checks, in order
InitializePaymentErr(seller, request_id, amount, expires_at) ==
    IF Len(request_id) > MaxSeedLen THEN "MaxSeedLengthExceeded"
    ELSE IF AccountAt(Pda(seller, request_id)).live THEN "AccountInUse"
    ELSE IF ~CanTransfer(lamports[seller], Rent) THEN "InsufficientFunds"
    ELSE IF ~(amount > 0) THEN "InvalidAmount"
    ELSE IF ~(expires_at > now) THEN "InvalidExpiration"
    ELSE IF ~(Len(request_id) <= MaxRequestIdLen) THEN "RequestIdTooLong"
    ELSE "Ok"

\* (mutant) is_paid is initialised to true
NewPaymentPaid(seller, request_id, amount, expires_at) ==
    [live |-> TRUE, seller |-> seller, request_id |-> request_id,
     amount |-> amount, expires_at |-> expires_at, is_paid |-> TRUE,
     payer |-> DefaultKey, bump |-> Bump(Pda(seller, request_id)),
     lamports |-> Rent]

NewPayment(seller, request_id, amount, expires_at) ==
    [live |-> TRUE, seller |-> seller, request_id |-> request_id,
     amount |-> amount, expires_at |-> expires_at, is_paid |-> FALSE,
     payer |-> DefaultKey, bump |-> Bump(Pda(seller, request_id)),
     lamports |-> Rent]

InitializePayment(seller, request_id, amount, expires_at) ==
    LET addr == Pda(seller, request_id)
        err == InitializePaymentErr(seller, request_id, amount, expires_at)
    IN  /\ last' = [op |-> "initialize_payment", addr |-> addr,
                    request_id |-> request_id, account |-> seller,
                    caller |-> seller, amount |-> amount,
                    expires_at |-> expires_at, err |-> err]
        /\ IF err = "Ok"
           THEN /\ accounts' = [accounts EXCEPT ![addr] =
                       NewPayment(seller, request_id, amount, expires_at)]
                /\ lamports' = [lamports EXCEPT ![seller] = @ - Rent]
           ELSE UNCHANGED <<accounts, lamports>>
        /\ UNCHANGED <<now, closed>>

\* ------------------------------------------------------ deposit_payment
\* (mutant) the expiry check accepts now == expires_at
DepositPaymentErrLateExpiry(addr, request_id, payer) ==
    LET payment == AccountAt(addr) IN
    IF ~payment.live THEN "AccountNotInitialized"
    ELSE IF Pda(payment.seller, request_id) # addr THEN "ConstraintSeeds"
    ELSE IF payment.is_paid THEN "AlreadyPaid"
    ELSE IF ~(now <= payment.expires_at) THEN "PaymentExpired"
    ELSE IF payment.request_id # request_id THEN "InvalidRequestId"
    ELSE IF ~CanTransfer(lamports[payer], payment.amount) THEN "InsufficientFunds"
    ELSE "Ok"

\* (mutant) the is_paid check is missing
DepositPaymentErrNoPaidCheck(addr, request_id, payer) ==
    LET payment == AccountAt(addr) IN
    IF ~payment.live THEN "AccountNotInitialized"
    ELSE IF Pda(payment.seller, request_id) # addr THEN "ConstraintSeeds"
    ELSE IF ~(now < payment.expires_at) THEN "PaymentExpired"
    ELSE IF payment.request_id # request_id THEN "InvalidRequestId"
    ELSE IF ~CanTransfer(lamports[payer], payment.amount) THEN "InsufficientFunds"
    ELSE "Ok"

\* (mutant) the expiry check is missing
DepositPaymentErrNoExpiry(addr, request_id, payer) ==
    LET payment == AccountAt(addr) IN
    IF ~payment.live THEN "AccountNotInitialized"
    ELSE IF Pda(payment.seller, request_id) # addr THEN "ConstraintSeeds"
    ELSE IF payment.is_paid THEN "AlreadyPaid"
    ELSE IF payment.request_id # request_id THEN "InvalidRequestId"
    ELSE IF ~CanTransfer(lamports[payer], payment.amount) THEN "InsufficientFunds"
    ELSE "Ok"

\* (mutant) the expiry check comes before the is_paid check
DepositPaymentErrExpiryFirst(addr, request_id, payer) ==
    LET payment == AccountAt(addr) IN
    IF ~payment.live THEN "AccountNotInitialized"
    ELSE IF Pda(payment.seller, request_id) # addr THEN "ConstraintSeeds"
    ELSE IF ~(now < payment.expires_at) THEN "PaymentExpired"
    ELSE IF payment.is_paid THEN "AlreadyPaid"
    ELSE IF payment.request_id # request_id THEN "InvalidRequestId"
    ELSE IF ~CanTransfer(lamports[payer], payment.amount) THEN "InsufficientFunds"
    ELSE "Ok"

\* Account<PaymentRequirement> must exist; seeds = [.., payment.seller,
\* request_id] must derive its address; then the handler's checks
DepositPaymentErr(addr, request_id, payer) ==
    LET payment == AccountAt(addr) IN
    IF ~payment.live THEN "AccountNotInitialized"
    ELSE IF Pda(payment.seller, request_id) # addr THEN "ConstraintSeeds"
    ELSE IF payment.is_paid THEN "AlreadyPaid"
    ELSE IF ~(now < payment.expires_at) THEN "PaymentExpired"
    ELSE IF payment.request_id # request_id THEN "InvalidRequestId"
    ELSE IF ~CanTransfer(lamports[payer], payment.amount) THEN "InsufficientFunds"
    ELSE "Ok"

\* (mutant) the transferred lamports do not reach the record
DepositedNotCredited(payment, payer) ==
    [payment EXCEPT !.is_paid = TRUE, !.payer = payer]

\* (mutant) the payer is not recorded
DepositedNoPayer(payment, payer) ==
    [payment EXCEPT !.lamports = @ + payment.amount, !.is_paid = TRUE]

\* the record after transfer(payer -> payment, amount) and the two writes
Deposited(payment, payer) ==
    [payment EXCEPT !.lamports = @ + payment.amount,
                    !.is_paid = TRUE,
                    !.payer = payer]

\* (mutant) is_paid and payer are written although the transfer failed
DepositPaymentNonAtomic(addr, request_id, payer) ==
    LET payment == AccountAt(addr)
        err == DepositPaymentErr(addr, request_id, payer)
    IN  /\ last' = [op |-> "deposit_payment", addr |-> addr,
                    request_id |-> request_id, account |-> payer,
                    caller |-> payer, amount |-> 0, expires_at |-> 0,
                    err |-> err]
        /\ IF err = "Ok"
           THEN /\ accounts' = [accounts EXCEPT ![addr] = Deposited(payment, payer)]
                /\ lamports' = [lamports EXCEPT ![payer] = @ - payment.amount]
           ELSE IF err = "InsufficientFunds"
           THEN /\ accounts' = [accounts EXCEPT ![addr].is_paid = TRUE,
                                                ![addr].payer = payer]
                /\ UNCHANGED lamports
           ELSE UNCHANGED <<accounts, lamports>>
        /\ UNCHANGED <<now, closed>>

DepositPayment(addr, request_id, payer) ==
    LET payment == AccountAt(addr)
        err == DepositPaymentErr(addr, request_id, payer)
    IN  /\ last' = [op |-> "deposit_payment", addr |-> addr,
                    request_id |-> request_id, account |-> payer,
                    caller |-> payer, amount |-> 0, expires_at |-> 0,
                    err |-> err]
        /\ IF err = "Ok"
           THEN /\ accounts' = [accounts EXCEPT ![addr] = Deposited(payment, payer)]
                /\ lamports' = [lamports EXCEPT ![payer] = @ - payment.amount]
           ELSE UNCHANGED <<accounts, lamports>>
        /\ UNCHANGED <<now, closed>>

\* --------------------------------------------------- verify_and_release
\* (mutant) a release is refused once the record has expired
VerifyAndReleaseErrBeforeExpiry(addr, request_id, seller) ==
    LET payment == AccountAt(addr) IN
    IF ~payment.live THEN "AccountNotInitialized"
    ELSE IF Pda(seller, request_id) # addr THEN "ConstraintSeeds"
    ELSE IF ~payment.is_paid THEN "NotPaid"
    ELSE IF payment.request_id # request_id THEN "InvalidRequestId"
    ELSE IF payment.seller # seller THEN "UnauthorizedSeller"
    ELSE IF ~(now < payment.expires_at) THEN "PaymentExpired"
    ELSE IF ~CanTransfer(payment.lamports, payment.amount) THEN "InsufficientFunds"
    ELSE "Ok"

\* (mutant) the is_paid check is missing
VerifyAndReleaseErrNoPaidCheck(addr, request_id, seller) ==
    LET payment == AccountAt(addr) IN
    IF ~payment.live THEN "AccountNotInitialized"
    ELSE IF Pda(seller, request_id) # addr THEN "ConstraintSeeds"
    ELSE IF payment.request_id # request_id THEN "InvalidRequestId"
    ELSE IF payment.seller # seller THEN "UnauthorizedSeller"
    ELSE "Ok"

\* seeds = [.., seller.key(), request_id] must derive the record's address;
\* then the handler's checks; nobody has to sign
VerifyAndReleaseErr(addr, request_id, seller) ==
    LET payment == AccountAt(addr) IN
    IF ~payment.live THEN "AccountNotInitialized"
    ELSE IF Pda(seller, request_id) # addr THEN "ConstraintSeeds"
    ELSE IF ~payment.is_paid THEN "NotPaid"
    ELSE IF payment.request_id # request_id THEN "InvalidRequestId"
    ELSE IF payment.seller # seller THEN "UnauthorizedSeller"
    ELSE IF ~CanTransfer(payment.lamports, payment.amount) THEN "InsufficientFunds"
    ELSE "Ok"

\* (mutant) only the transfer reaches the recipient
PaidOutAmountOnly(payment) == payment.amount

\* lamports the recipient receives: transfer(payment -> recipient, amount),
\* then `close = recipient` hands over whatever the account still holds
PaidOut(payment) ==
    LET transferred == payment.amount
        remaining == payment.lamports - transferred
    IN  transferred + remaining

\* (mutant) no close constraint: the drained account stays where it is
AfterCloseKept(payment) == [payment EXCEPT !.lamports = Rent]

\* `close = recipient`: the account is gone once the instruction has returned
AfterClose(payment) == NoAccount

\* (mutant) the lamports go to whoever calls the release
VerifyAndReleaseToCaller(addr, request_id, seller, caller) ==
    LET payment == AccountAt(addr)
        err == VerifyAndReleaseErr(addr, request_id, seller)
    IN  /\ last' = [op |-> "verify_and_release", addr |-> addr,
                    request_id |-> request_id, account |-> seller,
                    caller |-> caller, amount |-> 0, expires_at |-> 0,
                    err |-> err]
        /\ IF err = "Ok"
           THEN /\ accounts' = [accounts EXCEPT ![addr] = AfterClose(payment)]
                /\ lamports' = [lamports EXCEPT ![caller] = @ + PaidOut(payment)]
                /\ closed' = closed \cup {addr}
           ELSE UNCHANGED <<accounts, lamports, closed>>
        /\ UNCHANGED now

VerifyAndRelease(addr, request_id, seller, caller) ==
    LET payment == AccountAt(addr)
        err == VerifyAndReleaseErr(addr, request_id, seller)
    IN  /\ last' = [op |-> "verify_and_release", addr |-> addr,
                    request_id |-> request_id, account |-> seller,
                    caller |-> caller, amount |-> 0, expires_at |-> 0,
                    err |-> err]
        /\ IF err = "Ok"
           THEN /\ accounts' = [accounts EXCEPT ![addr] = AfterClose(payment)]
                /\ lamports' = [lamports EXCEPT ![seller] = @ + PaidOut(payment)]
                /\ closed' = closed \cup {addr}
           ELSE UNCHANGED <<accounts, lamports, closed>>
        /\ UNCHANGED now

\* ------------------------------------------------------- refund_payment
\* (mutant) the refund is legal only strictly after expires_at
RefundPaymentErrStrictlyAfter(addr, request_id, payer) ==
    LET payment == AccountAt(addr) IN
    IF ~payment.live THEN "AccountNotInitialized"
    ELSE IF Pda(payment.seller, request_id) # addr THEN "ConstraintSeeds"
    ELSE IF ~payment.is_paid THEN "NotPaid"
    ELSE IF payment.request_id # request_id THEN "InvalidRequestId"
    ELSE IF payment.payer # payer THEN "UnauthorizedPayer"
    ELSE IF ~(now > payment.expires_at) THEN "PaymentNotExpired"
    ELSE IF ~CanTransfer(payment.lamports, payment.amount) THEN "InsufficientFunds"
    ELSE "Ok"

\* (mutant) the expiry check comes before the payer check
RefundPaymentErrExpiryFirst(addr, request_id, payer) ==
    LET payment == AccountAt(addr) IN
    IF ~payment.live THEN "AccountNotInitialized"
    ELSE IF Pda(payment.seller, request_id) # addr THEN "ConstraintSeeds"
    ELSE IF ~payment.is_paid THEN "NotPaid"
    ELSE IF payment.request_id # request_id THEN "InvalidRequestId"
    ELSE IF ~(now >= payment.expires_at) THEN "PaymentNotExpired"
    ELSE IF payment.payer # payer THEN "UnauthorizedPayer"
    ELSE IF ~CanTransfer(payment.lamports, payment.amount) THEN "InsufficientFunds"
    ELSE "Ok"

\* (mutant) the expiry check is missing
RefundPaymentErrNoExpiry(addr, request_id, payer) ==
    LET payment == AccountAt(addr) IN
    IF ~payment.live THEN "AccountNotInitialized"
    ELSE IF Pda(payment.seller, request_id) # addr THEN "ConstraintSeeds"
    ELSE IF ~payment.is_paid THEN "NotPaid"
    ELSE IF payment.request_id # request_id THEN "InvalidRequestId"
    ELSE IF payment.payer # payer THEN "UnauthorizedPayer"
    ELSE "Ok"

\* seeds = [.., payment.seller, request_id]; payer signs; close = payer
RefundPaymentErr(addr, request_id, payer) ==
    LET payment == AccountAt(addr) IN
    IF ~payment.live THEN "AccountNotInitialized"
    ELSE IF Pda(payment.seller, request_id) # addr THEN "ConstraintSeeds"
    ELSE IF ~payment.is_paid THEN "NotPaid"
    ELSE IF payment.request_id # request_id THEN "InvalidRequestId"
    ELSE IF payment.payer # payer THEN "UnauthorizedPayer"
    ELSE IF ~(now >= payment.expires_at) THEN "PaymentNotExpired"
    ELSE IF ~CanTransfer(payment.lamports, payment.amount) THEN "InsufficientFunds"
    ELSE "Ok"

RefundPayment(addr, request_id, payer) ==
    LET payment == AccountAt(addr)
        err == RefundPaymentErr(addr, request_id, payer)
    IN  /\ last' = [op |-> "refund_payment", addr |-> addr,
                    request_id |-> request_id, account |-> payer,
                    caller |-> payer, amount |-> 0, expires_at |-> 0,
                    err |-> err]
        /\ IF err = "Ok"
           THEN /\ accounts' = [accounts EXCEPT ![addr] = AfterClose(payment)]
                /\ lamports' = [lamports EXCEPT ![payer] = @ + PaidOut(payment)]
                /\ closed' = closed \cup {addr}
           ELSE UNCHANGED <<accounts, lamports, closed>>
        /\ UNCHANGED now

\* ------------------------------------------------------------ behaviours
Create ==
    \E seller \in Sellers, request_id \in RequestIdInputs,
       amount \in Amounts, expires_at \in ExpiryInputs :
        InitializePayment(seller, request_id, amount, expires_at)

Deposit ==
    \E addr \in Addresses, request_id \in RequestIds, payer \in Pubkeys :
        DepositPayment(addr, request_id, payer)

Release ==
    \E addr \in Addresses, request_id \in RequestIds,
       seller \in Pubkeys, caller \in Pubkeys :
        VerifyAndRelease(addr, request_id, seller, caller)

Refund ==
    \E addr \in Addresses, request_id \in RequestIds, payer \in Pubkeys :
        RefundPayment(addr, request_id, payer)

Next == Tick \/ Create \/ Deposit \/ Release \/ Refund

Spec == Init /\ [][Next]_vars

\* somebody (the facilitator) releases the paid record at addr with the
\* stored seller and request id
ReleasePaid(addr) ==
    /\ accounts[addr].live
    /\ accounts[addr].is_paid
    /\ \E caller \in Pubkeys :
          VerifyAndRelease(addr, accounts[addr].request_id,
                           accounts[addr].seller, caller)

\* the facilitator does not give up on a paid record for ever
FairSpec == Spec /\ \A addr \in Addresses : WF_vars(ReleasePaid(addr))

\* ============================================================ properties
\* helpers: the instruction executed by the step (last') and its target
Terminal == {"verify_and_release", "refund_payment"}
Status(rec) == IF ~rec.live THEN "absent"
               ELSE IF rec.is_paid THEN "paid" ELSE "unpaid"
Succeeded(call, op, addr) ==
    call.op = op /\ call.addr = addr /\ call.err = "Ok"

\* C1: on every record at most one of Release and Refund succeeds: a
\* successful Release or Refund takes a live, paid record, hands its lamports
\* to one wallet and leaves the address without a record, and every Release
\* or Refund addressed to an address without a record fails for that reason
\* and moves nothing.
C1_TerminalOnce ==
    [][\A addr \in Addresses :
          (last'.op \in Terminal /\ last'.addr = addr) =>
             /\ last'.err = "Ok" =>
                   /\ Status(accounts[addr]) = "paid"
                   /\ Status(accounts'[addr]) = "absent"
                   /\ lamports'[last'.account] =
                          lamports[last'.account] + accounts[addr].lamports
                   /\ \A p \in Pubkeys \ {last'.account} :
                          lamports'[p] = lamports[p]
             /\ Status(accounts[addr]) = "absent" =>
                   /\ last'.err = "AccountNotInitialized"
                   /\ lamports' = lamports
                   /\ accounts' = accounts]_vars

\* a Refund has just been refused on an address whose record a Release closed
C1_Witness ==
    /\ last.op = "refund_payment"
    /\ last.err = "AccountNotInitialized"
    /\ last.addr \in closed
    /\ lamports["alice"] > InitLamports

\* C2: a record's status only moves absent -> unpaid by a successful
\* initialize_payment, unpaid -> paid by a successful deposit_payment, and
\* paid -> absent by a successful verify_and_release or refund_payment; a
\* successful deposit always starts from unpaid and a successful close from
\* paid.
C2_Lifecycle ==
    [][\A addr \in Addresses :
          LET s == Status(accounts[addr])
              t == Status(accounts'[addr])
          IN  /\ s # t =>
                    \/ /\ s = "absent" /\ t = "unpaid"
                       /\ Succeeded(last', "initialize_payment", addr)
                    \/ /\ s = "unpaid" /\ t = "paid"
                       /\ Succeeded(last', "deposit_payment", addr)
                    \/ /\ s = "paid" /\ t = "absent"
                       /\ \E op \in Terminal : Succeeded(last', op, addr)
              /\ Succeeded(last', "deposit_payment", addr) =>
                    s = "unpaid" /\ t = "paid"
              /\ (\E op \in Terminal : Succeeded(last', op, addr)) =>
                    s = "paid" /\ t = "absent"]_vars

\* one record has run its whole life while the other was paid
C2_Witness ==
    /\ Succeeded(last, "refund_payment", <<"alice", <<1>>>>)
    /\ Status(accounts[<<"alice", <<2>>>>]) = "paid"

\* C3: an unpaid record has the default payer and holds nothing beyond its
\* storage cost; a paid record has a payer other than the default and holds
\* exactly its amount beyond its storage cost.
C3_PaidInvariant ==
    \A addr \in Addresses :
        LET rec == accounts[addr] IN
        rec.live =>
            /\ ~rec.is_paid => rec.payer = DefaultKey /\ Custody(rec) = 0
            /\ rec.is_paid => rec.payer # DefaultKey /\ Custody(rec) = rec.amount

\* a paid and an unpaid record exist side by side
C3_Witness ==
    /\ Status(accounts[<<"alice", <<1>>>>]) = "paid"
    /\ Status(accounts[<<"alice", <<2>>>>]) = "unpaid"
    /\ closed # {}

\* C4: a live record sits at the address of its own (seller, request_id), so
\* a pair has at most one; initialize_payment for a pair whose record is live
\* fails with the collision error and changes no record and no balance.
C4_CreateCollision ==
    /\ [](\A addr \in Addresses :
            accounts[addr].live =>
               Pda(accounts[addr].seller, accounts[addr].request_id) = addr)
    /\ [][\A addr \in Addresses :
            (last'.op = "initialize_payment" /\ last'.addr = addr
               /\ accounts[addr].live) =>
                  /\ last'.err = "AccountInUse"
                  /\ accounts' = accounts
                  /\ lamports' = lamports]_vars

\* a second initialize_payment has just been refused on a paid record
C4_Witness ==
    /\ last.op = "initialize_payment"
    /\ last.err = "AccountInUse"
    /\ Status(accounts[last.addr]) = "paid"

\* C5 (as claimed): once the record of a pair has been destroyed, no record
\* of that pair is ever live again.
C5_NoReuse ==
    \A addr \in closed : ~accounts[addr].live

\* C5 (amended): initialize_payment succeeds only on a pair without a live
\* record and then leaves a fresh unpaid record; on a pair whose record was
\* destroyed it succeeds again whenever the inputs are valid and the seller
\* can pay the storage cost.
C5_CreateWhileAbsent ==
    [][\A addr \in Addresses :
          (last'.op = "initialize_payment" /\ last'.addr = addr) =>
             /\ last'.err = "Ok" =>
                   /\ ~accounts[addr].live
                   /\ Status(accounts'[addr]) = "unpaid"
                   /\ accounts'[addr].payer = DefaultKey
                   /\ accounts'[addr].amount = last'.amount
                   /\ accounts'[addr].expires_at = last'.expires_at
                   /\ accounts'[addr].lamports = Rent
             /\ (/\ addr \in closed
                 /\ ~accounts[addr].live
                 /\ last'.amount > 0
                 /\ last'.expires_at > now
                 /\ lamports[last'.caller] >= Rent) => last'.err = "Ok"]_vars

\* a pair whose record was destroyed has just been created again
C5_Witness ==
    /\ Succeeded(last, "initialize_payment", last.addr)
    /\ last.addr \in closed

\* C6 (as claimed): a deposit_payment on a live record, given the record's
\* request id, succeeds exactly when the record is unpaid and not expired,
\* and then the record is paid by the caller, holds amount, and the caller
\* has paid amount.
C6_DepositIffUnpaidUnexpired ==
    [][\A addr \in Addresses :
          LET rec == accounts[addr] IN
          (last'.op = "deposit_payment" /\ last'.addr = addr /\ rec.live
             /\ last'.request_id = rec.request_id) =>
                /\ last'.err = "Ok" <=> (~rec.is_paid /\ now < rec.expires_at)
                /\ last'.err = "Ok" =>
                      /\ accounts'[addr].is_paid
                      /\ accounts'[addr].payer = last'.caller
                      /\ Custody(accounts'[addr]) = rec.amount
                      /\ lamports'[last'.caller] =
                             lamports[last'.caller] - rec.amount]_vars

\* C6 (amended): a deposit_payment on a live record succeeds exactly when it
\* is given the record's request id, the record is unpaid and not expired,
\* and the caller holds at least amount; the postconditions are as claimed.
C6_DepositIffFunded ==
    [][\A addr \in Addresses :
          LET rec == accounts[addr] IN
          (last'.op = "deposit_payment" /\ last'.addr = addr /\ rec.live) =>
                /\ last'.err = "Ok" <=>
                      /\ last'.request_id = rec.request_id
                      /\ ~rec.is_paid
                      /\ now < rec.expires_at
                      /\ lamports[last'.caller] >= rec.amount
                /\ last'.err = "Ok" =>
                      /\ accounts'[addr].is_paid
                      /\ accounts'[addr].payer = last'.caller
                      /\ Custody(accounts'[addr]) = rec.amount
                      /\ lamports'[last'.caller] =
                             lamports[last'.caller] - rec.amount]_vars

\* a deposit has just succeeded one tick before the record expires
C6_Witness ==
    /\ Succeeded(last, "deposit_payment", last.addr)
    /\ accounts[last.addr].payer = "bob"
    /\ now + 1 = accounts[last.addr].expires_at
    /\ lamports["bob"] = InitLamports - accounts[last.addr].amount

\* C7 (as claimed): a verify_and_release on a live record succeeds exactly
\* when the record is paid and the given request id and seller equal the
\* stored ones, fails otherwise with NotPaid, InvalidRequestId or
\* UnauthorizedSeller, and on success the record is gone and the seller has
\* gained exactly amount.
C7_ReleaseGainsAmount ==
    [][\A addr \in Addresses :
          LET rec == accounts[addr] IN
          (last'.op = "verify_and_release" /\ last'.addr = addr /\ rec.live) =>
                /\ last'.err = "Ok" <=>
                      /\ rec.is_paid
                      /\ last'.request_id = rec.request_id
                      /\ last'.account = rec.seller
                /\ last'.err \in {"Ok", "NotPaid", "InvalidRequestId",
                                   "UnauthorizedSeller"}
                /\ last'.err = "Ok" =>
                      /\ ~accounts'[addr].live
                      /\ lamports'[rec.seller] =
                             lamports[rec.seller] + rec.amount]_vars

\* C7 (amended): the success condition is as claimed; a request id or seller
\* other than the stored one is refused by the seeds constraint, an unpaid
\* record with NotPaid; on success the record is gone and the seller has
\* gained amount plus the record's storage cost.
C7_ReleaseGainsAll ==
    [][\A addr \in Addresses :
          LET rec == accounts[addr]
              matches == /\ last'.request_id = rec.request_id
                         /\ last'.account = rec.seller
          IN
          (last'.op = "verify_and_release" /\ last'.addr = addr /\ rec.live) =>
                /\ last'.err = "Ok" <=> (rec.is_paid /\ matches)
                /\ ~matches => last'.err = "ConstraintSeeds"
                /\ (matches /\ ~rec.is_paid) => last'.err = "NotPaid"
                /\ last'.err = "Ok" =>
                      /\ ~accounts'[addr].live
                      /\ lamports'[rec.seller] =
                             lamports[rec.seller] + rec.amount + Rent]_vars

\* a release has just paid the seller a deposit made by somebody else
C7_Witness ==
    /\ Succeeded(last, "verify_and_release", last.addr)
    /\ last.caller = "bob"
    /\ last.addr \in closed
    /\ lamports["bob"] < InitLamports

\* C8 (as claimed): a refund_payment on a live record succeeds exactly when
\* the record is paid, the caller is the stored payer, the request id is the
\* stored one and the clock has reached expires_at; on success the record is
\* gone and the payer has gained exactly amount.
C8_RefundGainsAmount ==
    [][\A addr \in Addresses :
          LET rec == accounts[addr] IN
          (last'.op = "refund_payment" /\ last'.addr = addr /\ rec.live) =>
                /\ last'.err = "Ok" <=>
                      /\ rec.is_paid
                      /\ last'.caller = rec.payer
                      /\ last'.request_id = rec.request_id
                      /\ now >= rec.expires_at
                /\ last'.err = "Ok" =>
                      /\ ~accounts'[addr].live
                      /\ lamports'[rec.payer] =
                             lamports[rec.payer] + rec.amount]_vars

\* C8 (amended): the success condition is as claimed; on success the record
\* is gone and the payer has gained amount plus the record's storage cost.
C8_RefundGainsAll ==
    [][\A addr \in Addresses :
          LET rec == accounts[addr] IN
          (last'.op = "refund_payment" /\ last'.addr = addr /\ rec.live) =>
                /\ last'.err = "Ok" <=>
                      /\ rec.is_paid
                      /\ last'.caller = rec.payer
                      /\ last'.request_id = rec.request_id
                      /\ now >= rec.expires_at
                /\ last'.err = "Ok" =>
                      /\ ~accounts'[addr].live
                      /\ lamports'[rec.payer] =
                             lamports[rec.payer] + rec.amount + Rent]_vars

\* a refund has just returned a deposit to a payer who is not the seller
C8_Witness ==
    /\ Succeeded(last, "refund_payment", last.addr)
    /\ last.caller = "bob"
    /\ lamports["bob"] > InitLamports

\* C9: an instruction that fails changes no record, no balance and nothing
\* else, and deposit_payment changes is_paid or payer only in a step that
\* also moves amount from the caller into the record.
C9_FailureChangesNothing ==
    /\ [][(last'.op # "none" /\ last'.err # "Ok") =>
              UNCHANGED <<accounts, lamports, now, closed>>]_vars
    /\ [][\A addr \in Addresses :
            LET rec == accounts[addr] IN
            (/\ last'.op = "deposit_payment" /\ last'.addr = addr
             /\ \/ accounts'[addr].is_paid # rec.is_paid
                \/ accounts'[addr].payer # rec.payer) =>
                  /\ last'.err = "Ok"
                  /\ lamports'[last'.caller] =
                         lamports[last'.caller] - rec.amount
                  /\ accounts'[addr].lamports = rec.lamports + rec.amount]_vars

\* a deposit has just failed in the transfer and the record is still unpaid
C9_Witness ==
    /\ last.op = "deposit_payment"
    /\ last.err = "InsufficientFunds"
    /\ Status(accounts[last.addr]) = "unpaid"

\* C10: a deposit_payment on a paid record never succeeds, and given the
\* record's request id it fails with AlreadyPaid whatever the clock, the
\* caller and the caller's balance are.
C10_SecondDepositAlreadyPaid ==
    [][\A addr \in Addresses :
          LET rec == accounts[addr] IN
          (last'.op = "deposit_payment" /\ last'.addr = addr
             /\ rec.live /\ rec.is_paid) =>
                /\ last'.err # "Ok"
                /\ last'.request_id = rec.request_id =>
                      last'.err = "AlreadyPaid"]_vars

\* a second deposit by another caller has just been refused after expiry
C10_Witness ==
    /\ last.op = "deposit_payment"
    /\ last.err = "AlreadyPaid"
    /\ now > accounts[last.addr].expires_at
    /\ last.caller # accounts[last.addr].payer

\* C11 (as claimed): on a pair without a live record initialize_payment
\* succeeds for every amount > 0, expires_at > now and request id of at most
\* MaxRequestIdLen bytes, and leaves an unpaid record with the default payer.
C11_CreateValidInputs ==
    [][LET call == last' IN
       (/\ call.op = "initialize_payment"
        /\ ~AccountAt(call.addr).live
        /\ call.amount > 0
        /\ call.expires_at > now
        /\ Len(call.request_id) <= MaxRequestIdLen) =>
              /\ call.err = "Ok"
              /\ call.addr \in Addresses
              /\ Status(accounts'[call.addr]) = "unpaid"
              /\ accounts'[call.addr].payer = DefaultKey]_vars

\* C12: while a record stays live no step changes its seller, request_id,
\* amount, expires_at or bump, its amount is positive and its request id at
\* most MaxRequestIdLen bytes long, and once it is paid it stays paid by the
\* same payer.
C12_FieldsImmutable ==
    /\ [](\A addr \in Addresses :
            accounts[addr].live =>
               /\ accounts[addr].amount > 0
               /\ Len(accounts[addr].request_id) <= MaxRequestIdLen)
    /\ [][\A addr \in Addresses :
            LET rec == accounts[addr]
                rec2 == accounts'[addr]
            IN  (rec.live /\ rec2.live) =>
                   /\ rec2.seller = rec.seller
                   /\ rec2.request_id = rec.request_id
                   /\ rec2.amount = rec.amount
                   /\ rec2.expires_at = rec.expires_at
                   /\ rec2.bump = rec.bump
                   /\ rec.is_paid => (rec2.is_paid /\ rec2.payer = rec.payer)]_vars

\* a record paid by bob has just refused a deposit by alice
C12_Witness ==
    /\ last.op = "deposit_payment"
    /\ last.caller = "alice"
    /\ last.err = "AlreadyPaid"
    /\ accounts[last.addr].payer = "bob"
    /\ now < accounts[last.addr].expires_at

\* C13: the clock never goes back, and once a live record is unpaid at or
\* after its expires_at every instruction addressed to it fails (a deposit
\* given its request id with PaymentExpired, a release or refund that passes
\* the seeds constraint with NotPaid) and no step changes the record: it
\* stays live, unpaid and expired, holding its storage cost.
Stuck(addr) ==
    /\ Status(accounts[addr]) = "unpaid"
    /\ now >= accounts[addr].expires_at

C13_UnpaidExpiredStuck ==
    [][/\ now' >= now
       /\ \A addr \in Addresses :
             Stuck(addr) =>
                /\ accounts'[addr] = accounts[addr]
                /\ accounts'[addr].lamports = Rent
                /\ now' >= accounts'[addr].expires_at
                /\ (last'.op # "none" /\ last'.addr = addr) =>
                      /\ last'.err # "Ok"
                      /\ (last'.op = "deposit_payment"
                            /\ last'.request_id = accounts[addr].request_id)
                            => last'.err = "PaymentExpired"
                      /\ (last'.op \in Terminal
                            /\ last'.err # "ConstraintSeeds")
                            => last'.err = "NotPaid"]_vars

\* a deposit on an unpaid record has just been refused after its expiry,
\* with the record's storage cost still locked
C13_Witness ==
    /\ last.op = "deposit_payment"
    /\ last.err = "PaymentExpired"
    /\ last.caller = "bob"
    /\ now > accounts[last.addr].expires_at
    /\ Status(accounts[last.addr]) = "unpaid"
    /\ accounts[last.addr].lamports = Rent

\* C14: a step changes the record of a pair (its existence, any field, its
\* lamports) only if it executes an instruction addressed to that very pair;
\* instructions on other pairs, successful or not, and the clock leave it as
\* it is.
CallPair(call) ==
    IF call.op \in {"initialize_payment", "verify_and_release"}
    THEN <<call.account, call.request_id>>
    ELSE <<AccountAt(call.addr).seller, call.request_id>>

C14_PairsIndependent ==
    [][\A addr \in Addresses :
          accounts'[addr] # accounts[addr] =>
             /\ last'.op # "none"
             /\ last'.err = "Ok"
             /\ CallPair(last') = addr]_vars

\* one pair has just been released while the other pair stays unpaid
C14_Witness ==
    /\ Succeeded(last, "verify_and_release", <<"alice", <<2>>>>)
    /\ Status(accounts[<<"alice", <<1>>>>]) = "unpaid"
    /\ accounts[<<"alice", <<1>>>>].lamports = Rent

\* C15 (as claimed): no refund_payment succeeds at a clock value at or before
\* expires_at and no deposit_payment succeeds at one at or after it.
C15_RefundStrictlyAfter ==
    [][\A addr \in Addresses :
          /\ Succeeded(last', "refund_payment", addr) =>
                ~(now <= accounts[addr].expires_at)
          /\ Succeeded(last', "deposit_payment", addr) =>
                ~(now >= accounts[addr].expires_at)]_vars

\* C15 (amended): no deposit_payment succeeds at a clock value at or after
\* expires_at and no refund_payment succeeds before it, so no clock value
\* allows both; at the clock value expires_at itself the refund is legal: the
\* stored payer's refund of a paid record, given its request id, succeeds.
C15_RefundFromExpiry ==
    [][\A addr \in Addresses :
          LET rec == accounts[addr] IN
          /\ Succeeded(last', "refund_payment", addr) => now >= rec.expires_at
          /\ Succeeded(last', "deposit_payment", addr) => now < rec.expires_at
          /\ (/\ last'.op = "refund_payment" /\ last'.addr = addr
              /\ rec.live /\ rec.is_paid
              /\ last'.caller = rec.payer
              /\ last'.request_id = rec.request_id
              /\ now = rec.expires_at) => last'.err = "Ok"]_vars

\* a refund has just succeeded at clock 1: every record expires at 1 or
\* later, so this one was refunded at its expires_at exactly
C15_Witness ==
    /\ Succeeded(last, "refund_payment", last.addr)
    /\ now = 1
    /\ last.addr \in closed

C17_ReleaseAnyCallerAnyTime ==
    /\ [](\A addr \in Addresses :
            LET rec == accounts[addr] IN
            (rec.live /\ rec.is_paid) =>
               /\ VerifyAndReleaseErr(addr, rec.request_id, rec.seller) = "Ok"
               /\ now >= rec.expires_at =>
                     RefundPaymentErr(addr, rec.request_id, rec.payer) = "Ok")
    /\ [][\A addr \in Addresses :
            LET rec == accounts[addr] IN
            (last'.addr = addr /\ rec.live /\ rec.is_paid) =>
               /\ (/\ last'.op = "verify_and_release"
                   /\ last'.account = rec.seller
                   /\ last'.request_id = rec.request_id) =>
                      /\ last'.err = "Ok"
                      /\ lamports'[rec.seller] > lamports[rec.seller]
                      /\ ~accounts'[addr].live
               /\ Succeeded(last', "refund_payment", addr) =>
                      /\ lamports'[rec.payer] > lamports[rec.payer]
                      /\ ~accounts'[addr].live]_vars

\* at the last clock value, when every record has expired, a release called
\* by somebody who is not the seller has just paid the seller
C17_Witness ==
    /\ Succeeded(last, "verify_and_release", last.addr)
    /\ last.caller = "bob"
    /\ last.account = "alice"
    /\ now = MaxTime
    /\ lamports["alice"] > lamports["bob"]

\* C18: a record's lamports decrease only in a step that executes a
\* successful verify_and_release or refund_payment on that record, and then
\* all of them go to the stored seller (release) or the stored payer
\* (refund) while every other wallet keeps its balance.
C18_PayoutOnlyToSellerOrPayer ==
    [][\A addr \in Addresses :
          LET rec == accounts[addr]
              to == IF last'.op = "verify_and_release"
                    THEN rec.seller ELSE rec.payer
          IN  accounts'[addr].lamports < rec.lamports =>
                 /\ \E op \in Terminal : Succeeded(last', op, addr)
                 /\ rec.is_paid
                 /\ to \in Pubkeys
                 /\ lamports'[to] = lamports[to] + rec.lamports
                 /\ \A p \in Pubkeys \ {to} : lamports'[p] = lamports[p]]_vars

\* bob paid and then called the release himself: alice holds the amount
C18_Witness ==
    /\ Succeeded(last, "verify_and_release", last.addr)
    /\ last.caller = "bob"
    /\ lamports["bob"] = InitLamports - MaxAmount
    /\ lamports["alice"] = InitLamports + MaxAmount

\* C19: the lamports of all wallets plus the lamports held by all records
\* (escrowed amounts and storage cost) always add up to what the wallets
\* started with, and an address without a record holds nothing.
RECURSIVE SumOver(_, _)
SumOver(f, S) ==
    IF S = {} THEN 0
    ELSE LET x == CHOOSE y \in S : TRUE
         IN  f[x] + SumOver(f, S \ {x})

TotalLamports ==
    SumOver(lamports, Pubkeys)
      + SumOver([a \in Addresses |-> accounts[a].lamports], Addresses)

C19_ValueConserved ==
    /\ TotalLamports = Cardinality(Pubkeys) * InitLamports
    /\ \A addr \in Addresses :
          /\ ~accounts[addr].live => accounts[addr].lamports = 0
          /\ accounts[addr].live => accounts[addr].lamports >= Rent
    /\ \A p \in Pubkeys : lamports[p] >= 0

\* a refund has just paid bob more than he started with (the storage cost
\* alice had locked) while the other record still holds its own storage cost
C19_Witness ==
    /\ Succeeded(last, "refund_payment", last.addr)
    /\ lamports["bob"] = InitLamports + Rent
    /\ lamports["alice"] = InitLamports - 2 * Rent
    /\ \E addr \in Addresses : accounts[addr].lamports = Rent

\* C20: for every live paid record the release with the stored seller and
\* request id is accepted, and when releases of paid records are not put off
\* for ever every paid record is eventually closed.
C20_PaidEventuallyClosed ==
    /\ [](\A addr \in Addresses :
            Status(accounts[addr]) = "paid" => ENABLED <<ReleasePaid(addr)>>_vars)
    /\ \A addr \in Addresses :
          (Status(accounts[addr]) = "paid")
             ~> (addr \in closed /\ Status(accounts[addr]) # "paid")

\* a record paid after the clock had advanced has just been released
C20_Witness ==
    /\ Succeeded(last, "verify_and_release", last.addr)
    /\ last.addr \in closed
    /\ now = 1
    /\ lamports["alice"] = InitLamports + MaxAmount

====
